---- MODULE Spec2Model ----
(***************************************************************************)
(* Model of the two upload hooks of the Wifi module:                       *)
(*   overlayable_hook.py   (one rule: Updated-Overlayable acknowledgment)  *)
(*   wifi_upload_hook.py   (adds the "Bug: 294871353" rule for strings.xml)*)
(* A Python str / bytes value is a sequence of one-character strings, so   *)
(* that splitlines, strip, lower, startswith and "in" are computed.        *)
(***************************************************************************)
EXTENDS Integers, Sequences, FiniteSets, TLC

\* ------------------------------------------------------------------------
\* Bounds of the explored inputs
\* ------------------------------------------------------------------------
MaxMsgPieces == 3
MaxFiles == 2
MaxBranchLines == 2

\* ------------------------------------------------------------------------
\* Python built-ins used by the hooks
\* ------------------------------------------------------------------------
\* Characters at which str.splitlines() breaks a line.
StrLineBreaks ==
  {"\n", "\r", "\f", "<VT>", "<FS>", "<GS>", "<RS>", "<NEL>", "<LS>", "<PS>"}

\* Characters at which bytes.splitlines() breaks a line.
BytesLineBreaks == {"\n", "\r"}

\* Characters removed by str.strip() with no argument.
Whitespace == StrLineBreaks \cup {" ", "\t", "<US>", "<NBSP>"}

UpperCase ==
  <<"A", "B", "C", "D", "E", "F", "G", "H", "I", "J", "K", "L", "M",
    "N", "O", "P", "Q", "R", "S", "T", "U", "V", "W", "X", "Y", "Z">>

LowerCase ==
  <<"a", "b", "c", "d", "e", "f", "g", "h", "i", "j", "k", "l", "m",
    "n", "o", "p", "q", "r", "s", "t", "u", "v", "w", "x", "y", "z">>

char_lower(c) ==
  IF \E i \in 1..Len(UpperCase) : UpperCase[i] = c
    THEN LowerCase[CHOOSE i \in 1..Len(UpperCase) : UpperCase[i] = c]
    ELSE c

str_lower(s) == [i \in 1..Len(s) |-> char_lower(s[i])]

str_strip(s) ==
  LET keep == {i \in 1..Len(s) : s[i] \notin Whitespace}
  IN  IF keep = {} THEN <<>>
      ELSE SubSeq(s, CHOOSE i \in keep : \A j \in keep : i <= j,
                     CHOOSE i \in keep : \A j \in keep : i >= j)

startswith(s, prefix) ==
  Len(s) >= Len(prefix) /\ SubSeq(s, 1, Len(prefix)) = prefix

\* sub in s
contains(s, sub) ==
  \E i \in 1..(Len(s) - Len(sub) + 1) : SubSeq(s, i, i + Len(sub) - 1) = sub

RECURSIVE splitlines(_, _)
splitlines(s, breaks) ==
  LET at == {i \in 1..Len(s) : s[i] \in breaks}
  IN  IF at = {}
        THEN IF s = <<>> THEN <<>> ELSE <<s>>
        ELSE LET i == CHOOSE k \in at : \A j \in at : k <= j
                 skip == IF s[i] = "\r" /\ i < Len(s) /\ s[i + 1] = "\n"
                           THEN 2 ELSE 1
             IN  <<SubSeq(s, 1, i - 1)>>
                   \o splitlines(SubSeq(s, i + skip, Len(s)), breaks)

str_splitlines(s) == splitlines(s, StrLineBreaks)

bytes_splitlines(s) == splitlines(s, BytesLineBreaks)

\* ------------------------------------------------------------------------
\* Literals of the hooks
\* ------------------------------------------------------------------------
BASE_DIR ==
  <<"s", "e", "r", "v", "i", "c", "e", "/", "S", "e", "r", "v", "i", "c", "e",
    "W", "i", "f", "i", "R", "e", "s", "o", "u", "r", "c", "e", "s", "/",
    "r", "e", "s", "/">>

OVERLAY_FILE ==
  BASE_DIR \o <<"v", "a", "l", "u", "e", "s", "/", "o", "v", "e", "r", "l",
                "a", "y", "a", "b", "l", "e", ".", "x", "m", "l">>

CONFIG_FILE ==
  BASE_DIR \o <<"v", "a", "l", "u", "e", "s", "/", "c", "o", "n", "f", "i",
                "g", ".", "x", "m", "l">>

STRING_FILE ==
  BASE_DIR \o <<"v", "a", "l", "u", "e", "s", "/", "s", "t", "r", "i", "n",
                "g", "s", ".", "x", "m", "l">>

STYLES_FILE ==
  BASE_DIR \o <<"v", "a", "l", "u", "e", "s", "/", "s", "t", "y", "l", "e",
                "s", ".", "x", "m", "l">>

DRAWABLE_DIR == BASE_DIR \o <<"d", "r", "a", "w", "a", "b", "l", "e", "/">>

LAYOUT_DIR == BASE_DIR \o <<"l", "a", "y", "o", "u", "t", "/">>

\* 'updated-overlayable'
OverlayableMarker ==
  <<"u", "p", "d", "a", "t", "e", "d", "-", "o", "v", "e", "r", "l", "a", "y",
    "a", "b", "l", "e">>

\* 'bug: 294871353'
TranslationBugMarker ==
  <<"b", "u", "g", ":", " ", "2", "9", "4", "8", "7", "1", "3", "5", "3">>

\* b'[aosp/'
AospRemote == <<"[", "a", "o", "s", "p", "/">>

\* Python's None; differs from every str value, whose elements are characters.
None == <<"None">>

\* ------------------------------------------------------------------------
\* overlayable_hook.py
\* ------------------------------------------------------------------------
\* returns False from inside the loop: only the first line is looked at
ov_is_commit_msg_valid_first_line(commit_msg) ==
  LET lines == str_splitlines(commit_msg)
  IN  /\ lines # <<>>
      /\ startswith(str_lower(str_strip(lines[1])), OverlayableMarker)

ov_is_commit_msg_valid(commit_msg) ==
  LET lines == str_splitlines(commit_msg)
  IN  \E i \in 1..Len(lines) :
        startswith(str_lower(str_strip(lines[i])), OverlayableMarker)

RECURSIVE branch_scan(_)
branch_scan(branches) ==
  IF branches = <<>>
    THEN TRUE
    ELSE IF startswith(Head(branches), <<"*">>)
           THEN contains(Head(branches), AospRemote)
           ELSE branch_scan(Tail(branches))

\* falls through to False when no line starts with '*'
ov_is_in_aosp_fail_closed(git_output) ==
  LET branches == bytes_splitlines(git_output)
  IN  /\ \E i \in 1..Len(branches) : startswith(branches[i], <<"*">>)
      /\ branch_scan(branches)

ov_is_in_aosp(git_output) == branch_scan(bytes_splitlines(git_output))

\* takes every file under values/ for a tracked one
RECURSIVE ov_get_changed_resource_file_values_dir(_, _)
ov_get_changed_resource_file_values_dir(base_dir, commit_files) ==
  LET values_dir == base_dir \o <<"v", "a", "l", "u", "e", "s", "/">>
      drawable_dir == base_dir \o <<"d", "r", "a", "w", "a", "b", "l", "e", "/">>
      layout_dir == base_dir \o <<"l", "a", "y", "o", "u", "t", "/">>
  IN  IF commit_files = <<>>
        THEN None
        ELSE LET commit_file == Head(commit_files)
             IN  IF startswith(commit_file, values_dir) THEN commit_file
                 ELSE IF startswith(commit_file, drawable_dir) THEN commit_file
                 ELSE IF startswith(commit_file, layout_dir) THEN commit_file
                 ELSE ov_get_changed_resource_file_values_dir(base_dir,
                                                              Tail(commit_files))

RECURSIVE ov_get_changed_resource_file(_, _)
ov_get_changed_resource_file(base_dir, commit_files) ==
  LET config_file == base_dir \o <<"v", "a", "l", "u", "e", "s", "/", "c",
                                   "o", "n", "f", "i", "g", ".", "x", "m", "l">>
      string_file == base_dir \o <<"v", "a", "l", "u", "e", "s", "/", "s",
                                   "t", "r", "i", "n", "g", "s", ".", "x",
                                   "m", "l">>
      styles_file == base_dir \o <<"v", "a", "l", "u", "e", "s", "/", "s",
                                   "t", "y", "l", "e", "s", ".", "x", "m", "l">>
      drawable_dir == base_dir \o <<"d", "r", "a", "w", "a", "b", "l", "e", "/">>
      layout_dir == base_dir \o <<"l", "a", "y", "o", "u", "t", "/">>
  IN  IF commit_files = <<>>
        THEN None
        ELSE LET commit_file == Head(commit_files)
             IN  IF commit_file = config_file THEN commit_file
                 ELSE IF commit_file = string_file THEN commit_file
                 ELSE IF commit_file = styles_file THEN commit_file
                 ELSE IF startswith(commit_file, drawable_dir) THEN commit_file
                 ELSE IF startswith(commit_file, layout_dir) THEN commit_file
                 ELSE ov_get_changed_resource_file(base_dir, Tail(commit_files))

\* ------------------------------------------------------------------------
\* wifi_upload_hook.py
\* ------------------------------------------------------------------------
\* tests 'updated-overlayable' in line instead of line.startswith(...)
wu_is_commit_msg_valid_anywhere(commit_msg) ==
  LET lines == str_splitlines(commit_msg)
  IN  \E i \in 1..Len(lines) :
        contains(str_lower(str_strip(lines[i])), OverlayableMarker)

wu_is_commit_msg_valid(commit_msg) ==
  LET lines == str_splitlines(commit_msg)
  IN  \E i \in 1..Len(lines) :
        startswith(str_lower(str_strip(lines[i])), OverlayableMarker)

\* looks for b'[aosp/' in every line, not only in the current branch's
wu_is_in_aosp_any_line(git_output) ==
  LET branches == bytes_splitlines(git_output)
  IN  \/ \A i \in 1..Len(branches) : ~startswith(branches[i], <<"*">>)
      \/ \E i \in 1..Len(branches) : contains(branches[i], AospRemote)

wu_is_in_aosp(git_output) == branch_scan(bytes_splitlines(git_output))

\* looks for STRING_FILE in the whole list before anything else
RECURSIVE wu_get_changed_resource_file_strings_first(_)
wu_get_changed_resource_file_strings_first(commit_files) ==
  IF \E i \in 1..Len(commit_files) : commit_files[i] = STRING_FILE
    THEN STRING_FILE
    ELSE IF commit_files = <<>>
      THEN None
      ELSE LET commit_file == Head(commit_files)
           IN  IF commit_file = CONFIG_FILE THEN commit_file
               ELSE IF commit_file = STYLES_FILE THEN commit_file
               ELSE IF startswith(commit_file, DRAWABLE_DIR) THEN commit_file
               ELSE IF startswith(commit_file, LAYOUT_DIR) THEN commit_file
               ELSE wu_get_changed_resource_file_strings_first(Tail(commit_files))

RECURSIVE wu_get_changed_resource_file(_)
wu_get_changed_resource_file(commit_files) ==
  IF commit_files = <<>>
    THEN None
    ELSE LET commit_file == Head(commit_files)
         IN  IF commit_file = STRING_FILE THEN STRING_FILE
             ELSE IF commit_file = CONFIG_FILE THEN commit_file
             ELSE IF commit_file = STYLES_FILE THEN commit_file
             ELSE IF startswith(commit_file, DRAWABLE_DIR) THEN commit_file
             ELSE IF startswith(commit_file, LAYOUT_DIR) THEN commit_file
             ELSE wu_get_changed_resource_file(Tail(commit_files))

\* forgets .lower()
is_commit_msg_has_translation_bug_id_case_sensitive(commit_msg) ==
  LET lines == str_splitlines(commit_msg)
  IN  \E i \in 1..Len(lines) :
        startswith(str_strip(lines[i]), TranslationBugMarker)

is_commit_msg_has_translation_bug_id(commit_msg) ==
  LET lines == str_splitlines(commit_msg)
  IN  \E i \in 1..Len(lines) :
        startswith(str_lower(str_strip(lines[i])), TranslationBugMarker)

\* ------------------------------------------------------------------------
\* Inputs of one hook invocation
\* ------------------------------------------------------------------------
\* All sequences over S of length at most n.
SeqsUpTo(S, n) == UNION {[1..k -> S] : k \in 0..n}

RECURSIVE Concat(_)
Concat(ss) == IF ss = <<>> THEN <<>> ELSE Head(ss) \o Concat(Tail(ss))

RECURSIVE JoinLines(_)
JoinLines(ls) == IF ls = <<>> THEN <<>> ELSE Head(ls) \o <<"\n">> \o JoinLines(Tail(ls))

\* "Updated-Overlayable", "UPDATED-OVERLAYABLE", "Bug: 294871353",
\* "bug: 29487135" (one digit short), "see", " ", "\n", "\r"
MsgPieces ==
  { <<"U", "p", "d", "a", "t", "e", "d", "-", "O", "v", "e", "r", "l", "a",
      "y", "a", "b", "l", "e">>,
    <<"U", "P", "D", "A", "T", "E", "D", "-", "O", "V", "E", "R", "L", "A",
      "Y", "A", "B", "L", "E">>,
    <<"B", "u", "g", ":", " ", "2", "9", "4", "8", "7", "1", "3", "5", "3">>,
    <<"b", "u", "g", ":", " ", "2", "9", "4", "8", "7", "1", "3", "5">>,
    <<"s", "e", "e">>,
    <<" ">>,
    <<"\n">>,
    <<"\r">> }

Messages == {Concat(ps) : ps \in SeqsUpTo(MsgPieces, MaxMsgPieces)}

\* "", "fix", an acknowledgment, a bug id, both, and a mid-line mention
FewMessages ==
  { <<>>,
    <<"f", "i", "x">>,
    <<"f", "i", "x", "\n">> \o
      <<"U", "p", "d", "a", "t", "e", "d", "-", "O", "v", "e", "r", "l", "a",
        "y", "a", "b", "l", "e", ":", " ", "T", "R", "U", "E">>,
    <<"B", "u", "g", ":", " ", "2", "9", "4", "8", "7", "1", "3", "5", "3">>,
    <<"B", "u", "g", ":", " ", "2", "9", "4", "8", "7", "1", "3", "5", "3", "\n">> \o
      <<"U", "p", "d", "a", "t", "e", "d", "-", "O", "v", "e", "r", "l", "a",
        "y", "a", "b", "l", "e", ":", " ", "T", "R", "U", "E">>,
    <<"s", "e", "e", " ">> \o
      <<"U", "p", "d", "a", "t", "e", "d", "-", "O", "v", "e", "r", "l", "a",
        "y", "a", "b", "l", "e">> }

\* Tracked: config.xml, strings.xml, styles.xml, drawable/icon.png,
\* layout/main.xml.  Untracked: overlayable.xml, drawable-hdpi/icon.png
\* and a strings.xml outside the resource directory.
Paths ==
  { CONFIG_FILE, STRING_FILE, STYLES_FILE,
    DRAWABLE_DIR \o <<"i", "c", "o", "n", ".", "p", "n", "g">>,
    LAYOUT_DIR \o <<"m", "a", "i", "n", ".", "x", "m", "l">>,
    OVERLAY_FILE,
    BASE_DIR \o <<"d", "r", "a", "w", "a", "b", "l", "e", "-", "h", "d", "p",
                  "i", "/", "i", "c", "o", "n", ".", "p", "n", "g">>,
    <<"v", "a", "l", "u", "e", "s", "/", "s", "t", "r", "i", "n", "g", "s",
      ".", "x", "m", "l">> }

FileLists == SeqsUpTo(Paths, MaxFiles)

FewFileLists == { <<>>, <<OVERLAY_FILE>>, <<CONFIG_FILE>>, <<STRING_FILE>> }

\* "* m [aosp/m]", "* d [goog/d]", "  u [aosp/u]", "  g [goog/g]"
BranchLines ==
  { <<"*", " ", "m", " ", "[", "a", "o", "s", "p", "/", "m", "]">>,
    <<"*", " ", "d", " ", "[", "g", "o", "o", "g", "/", "d", "]">>,
    <<" ", " ", "u", " ", "[", "a", "o", "s", "p", "/", "u", "]">>,
    <<" ", " ", "g", " ", "[", "g", "o", "o", "g", "/", "g", "]">> }

GitOutputs == {JoinLines(ls) : ls \in SeqsUpTo(BranchLines, MaxBranchLines)}

FewGitOutputs ==
  { JoinLines(<< <<"*", " ", "m", " ", "[", "a", "o", "s", "p", "/", "m", "]">> >>),
    JoinLines(<< <<"*", " ", "d", " ", "[", "g", "o", "o", "g", "/", "d", "]">> >>) }

\* ------------------------------------------------------------------------
\* State
\* ------------------------------------------------------------------------
VARIABLES
  commit_msg,    \* args.commit_msg
  commit_files,  \* args.commit_files
  git_output,    \* what `git branch -vv` writes
  ov,            \* the run of overlayable_hook.main
  wu             \* the run of wifi_upload_hook.main

vars == <<commit_msg, commit_files, git_output, ov, wu>>

\* A local or a return value is <<>> until it is set, then <<value>>.
Unset == <<>>

OvStart ==
  [pc |-> "is_in_aosp", in_aosp |-> Unset, changed_file |-> Unset,
   msg_valid |-> Unset, exit_code |-> Unset, printed |-> <<>>]

WuStart ==
  [pc |-> "is_in_aosp", in_aosp |-> Unset, changed_file |-> Unset,
   has_bug_id |-> Unset, msg_valid |-> Unset, exit_code |-> Unset,
   printed |-> <<>>]

Init ==
  /\ \/ /\ commit_msg \in Messages
        /\ commit_files \in FewFileLists
        /\ git_output \in FewGitOutputs
     \/ /\ commit_msg \in FewMessages
        /\ commit_files \in FileLists
        /\ git_output \in FewGitOutputs
     \/ /\ commit_msg \in FewMessages
        /\ commit_files \in FewFileLists
        /\ git_output \in GitOutputs
  /\ ov = OvStart
  /\ wu = WuStart

\* The block of print() calls that asks for the acknowledgment line.
OverlayableGuidance(changed_file) ==
  [guidance |-> "Updated-Overlayable: TRUE", changed_file |-> changed_file]

\* The block of print() calls that asks for the bug id line.
TranslationBugGuidance(changed_file) ==
  [guidance |-> "Bug: 294871353", changed_file |-> changed_file]

\* ------------------------------------------------------------------------
\* overlayable_hook.main
\* ------------------------------------------------------------------------
\* ignores the result of is_in_aosp()
OvCheckBranch_no_bypass ==
  /\ ov.pc = "is_in_aosp"
  /\ ov' = [ov EXCEPT !.in_aosp = <<ov_is_in_aosp(git_output)>>,
                      !.pc = "get_changed_resource_file"]
  /\ UNCHANGED <<commit_msg, commit_files, git_output, wu>>

OvCheckBranch ==
  /\ ov.pc = "is_in_aosp"
  /\ LET r == ov_is_in_aosp(git_output)
     IN  ov' = IF r
                 THEN [ov EXCEPT !.in_aosp = <<r>>, !.exit_code = <<0>>,
                                 !.pc = "done"]
                 ELSE [ov EXCEPT !.in_aosp = <<r>>,
                                 !.pc = "get_changed_resource_file"]
  /\ UNCHANGED <<commit_msg, commit_files, git_output, wu>>

OvGetChanged ==
  /\ ov.pc = "get_changed_resource_file"
  /\ LET changed_file == ov_get_changed_resource_file(BASE_DIR, commit_files)
     IN  ov' = IF changed_file = None \/ changed_file = <<>>
                 THEN [ov EXCEPT !.changed_file = <<changed_file>>,
                                 !.exit_code = <<0>>, !.pc = "done"]
                 ELSE [ov EXCEPT !.changed_file = <<changed_file>>,
                                 !.pc = "is_commit_msg_valid"]
  /\ UNCHANGED <<commit_msg, commit_files, git_output, wu>>

OvCheckMsg ==
  /\ ov.pc = "is_commit_msg_valid"
  /\ LET r == ov_is_commit_msg_valid(commit_msg)
     IN  ov' = IF r
                 THEN [ov EXCEPT !.msg_valid = <<r>>, !.exit_code = <<0>>,
                                 !.pc = "done"]
                 ELSE [ov EXCEPT !.msg_valid = <<r>>,
                                 !.printed = Append(ov.printed,
                                   OverlayableGuidance(ov.changed_file[1])),
                                 !.exit_code = <<1>>, !.pc = "done"]
  /\ UNCHANGED <<commit_msg, commit_files, git_output, wu>>

\* ------------------------------------------------------------------------
\* wifi_upload_hook.main
\* ------------------------------------------------------------------------
WuCheckBranch ==
  /\ wu.pc = "is_in_aosp"
  /\ LET r == wu_is_in_aosp(git_output)
     IN  wu' = IF r
                 THEN [wu EXCEPT !.in_aosp = <<r>>, !.exit_code = <<0>>,
                                 !.pc = "done"]
                 ELSE [wu EXCEPT !.in_aosp = <<r>>,
                                 !.pc = "get_changed_resource_file"]
  /\ UNCHANGED <<commit_msg, commit_files, git_output, ov>>

WuGetChanged ==
  /\ wu.pc = "get_changed_resource_file"
  /\ LET changed_file == wu_get_changed_resource_file(commit_files)
     IN  wu' = IF changed_file = None \/ changed_file = <<>>
                 THEN [wu EXCEPT !.changed_file = <<changed_file>>,
                                 !.exit_code = <<0>>, !.pc = "done"]
                 ELSE [wu EXCEPT !.changed_file = <<changed_file>>,
                                 !.pc = "translation_bug_id"]
  /\ UNCHANGED <<commit_msg, commit_files, git_output, ov>>

\* prints the bug id guidance but does not return
WuCheckBugId_no_return ==
  /\ wu.pc = "translation_bug_id"
  /\ IF wu.changed_file[1] = STRING_FILE
       THEN LET r == is_commit_msg_has_translation_bug_id(commit_msg)
            IN  wu' = IF ~r
                        THEN [wu EXCEPT !.has_bug_id = <<r>>,
                                        !.printed = Append(wu.printed,
                                          TranslationBugGuidance(wu.changed_file[1])),
                                        !.pc = "is_commit_msg_valid"]
                        ELSE [wu EXCEPT !.has_bug_id = <<r>>,
                                        !.pc = "is_commit_msg_valid"]
       ELSE wu' = [wu EXCEPT !.pc = "is_commit_msg_valid"]
  /\ UNCHANGED <<commit_msg, commit_files, git_output, ov>>

\* returns 0 as soon as the bug id line is there
WuCheckBugId_exempt ==
  /\ wu.pc = "translation_bug_id"
  /\ IF wu.changed_file[1] = STRING_FILE
       THEN LET r == is_commit_msg_has_translation_bug_id(commit_msg)
            IN  wu' = IF ~r
                        THEN [wu EXCEPT !.has_bug_id = <<r>>,
                                        !.printed = Append(wu.printed,
                                          TranslationBugGuidance(wu.changed_file[1])),
                                        !.exit_code = <<1>>, !.pc = "done"]
                        ELSE [wu EXCEPT !.has_bug_id = <<r>>,
                                        !.exit_code = <<0>>, !.pc = "done"]
       ELSE wu' = [wu EXCEPT !.pc = "is_commit_msg_valid"]
  /\ UNCHANGED <<commit_msg, commit_files, git_output, ov>>

WuCheckBugId ==
  /\ wu.pc = "translation_bug_id"
  /\ IF wu.changed_file[1] = STRING_FILE
       THEN LET r == is_commit_msg_has_translation_bug_id(commit_msg)
            IN  wu' = IF ~r
                        THEN [wu EXCEPT !.has_bug_id = <<r>>,
                                        !.printed = Append(wu.printed,
                                          TranslationBugGuidance(wu.changed_file[1])),
                                        !.exit_code = <<1>>, !.pc = "done"]
                        ELSE [wu EXCEPT !.has_bug_id = <<r>>,
                                        !.pc = "is_commit_msg_valid"]
       ELSE wu' = [wu EXCEPT !.pc = "is_commit_msg_valid"]
  /\ UNCHANGED <<commit_msg, commit_files, git_output, ov>>

WuCheckMsg ==
  /\ wu.pc = "is_commit_msg_valid"
  /\ LET r == wu_is_commit_msg_valid(commit_msg)
     IN  wu' = IF r
                 THEN [wu EXCEPT !.msg_valid = <<r>>, !.exit_code = <<0>>,
                                 !.pc = "done"]
                 ELSE [wu EXCEPT !.msg_valid = <<r>>,
                                 !.printed = Append(wu.printed,
                                   OverlayableGuidance(wu.changed_file[1])),
                                 !.exit_code = <<1>>, !.pc = "done"]
  /\ UNCHANGED <<commit_msg, commit_files, git_output, ov>>

Next ==
  \/ OvCheckBranch
  \/ OvGetChanged
  \/ OvCheckMsg
  \/ WuCheckBranch
  \/ WuGetChanged
  \/ WuCheckBugId
  \/ WuCheckMsg

Spec == Init /\ [][Next]_vars

\* ------------------------------------------------------------------------
\* Vocabulary of the properties, stated on positions of the raw inputs
\* ------------------------------------------------------------------------
TypeOK ==
  /\ ov.pc \in {"is_in_aosp", "get_changed_resource_file",
                "is_commit_msg_valid", "done"}
  /\ wu.pc \in {"is_in_aosp", "get_changed_resource_file",
                "translation_bug_id", "is_commit_msg_valid", "done"}
  /\ Len(ov.exit_code) <= 1
  /\ Len(wu.exit_code) <= 1

\* c and d are the same character up to letter case
SameFolded(c, d) ==
  \/ c = d
  \/ \E i \in 1..Len(UpperCase) : {c, d} = {UpperCase[i], LowerCase[i]}

\* positions of msg at which marker occurs, letter case ignored
Occurrences(msg, marker) ==
  {i \in 1..(Len(msg) - Len(marker) + 1) :
     \A k \in 1..Len(marker) : SameFolded(msg[i + k - 1], marker[k])}

\* position i of msg is the first of a line
LineStartsAt(msg, i) == i = 1 \/ msg[i - 1] \in StrLineBreaks

\* some line of msg, trimmed and lowercased, starts with marker
HasMarkerLine(msg, marker) ==
  \E i \in Occurrences(msg, marker) :
    \E s \in 1..i :
      /\ LineStartsAt(msg, s)
      /\ \A k \in s..(i - 1) : msg[k] \in Whitespace

\* every occurrence of marker in msg follows non-blank text of its line
MarkerOnlyMidLine(msg, marker) ==
  \A i \in Occurrences(msg, marker) :
    \E j \in 1..(i - 1) :
      /\ msg[j] \notin Whitespace
      /\ \A k \in j..(i - 1) : msg[k] \notin StrLineBreaks

\* the path is one of the five tracked surfaces
IsTracked(path) ==
  \/ path \in {CONFIG_FILE, STRING_FILE, STYLES_FILE}
  \/ /\ Len(path) >= Len(DRAWABLE_DIR)
     /\ SubSeq(path, 1, Len(DRAWABLE_DIR)) = DRAWABLE_DIR
  \/ /\ Len(path) >= Len(LAYOUT_DIR)
     /\ SubSeq(path, 1, Len(LAYOUT_DIR)) = LAYOUT_DIR

TrackedAt(files) == {i \in 1..Len(files) : IsTracked(files[i])}

\* the first tracked element of files in list order, None without one
FirstTracked(files) ==
  IF TrackedAt(files) = {}
    THEN None
    ELSE files[CHOOSE i \in TrackedAt(files) : \A j \in TrackedAt(files) : i <= j]

OvDone == ov.pc = "done"

WuDone == wu.pc = "done"

\* ------------------------------------------------------------------------
\* Properties
\* ------------------------------------------------------------------------
\* C1: in both hooks, whenever is_in_aosp() returned true the hook has
\* returned 0 and printed nothing, whatever the message and the files.
C1_UpstreamBypass ==
  /\ ov.in_aosp = <<TRUE>> =>
       OvDone /\ ov.exit_code = <<0>> /\ ov.printed = <<>>
  /\ wu.in_aosp = <<TRUE>> =>
       WuDone /\ wu.exit_code = <<0>> /\ wu.printed = <<>>

\* both hooks bypassed an empty message with strings.xml changed
C1_Witness ==
  /\ ov.in_aosp = <<TRUE>> /\ wu.in_aosp = <<TRUE>>
  /\ commit_msg = <<>>
  /\ commit_files = <<STRING_FILE>>

\* C2: in both hooks, when no changed path is tracked the exit code is 0,
\* whatever the commit message contains.
C2_NoTrackedChangeAllowed ==
  TrackedAt(commit_files) = {} =>
    /\ OvDone => ov.exit_code = <<0>> /\ ov.printed = <<>>
    /\ WuDone => wu.exit_code = <<0>> /\ wu.printed = <<>>

\* outside the upstream branch, only overlayable.xml changed, no marker
C2_Witness ==
  /\ commit_files = <<OVERLAY_FILE>>
  /\ ov.in_aosp = <<FALSE>> /\ wu.in_aosp = <<FALSE>>
  /\ ~HasMarkerLine(commit_msg, OverlayableMarker)
  /\ OvDone /\ ov.exit_code = <<0>>
  /\ WuDone /\ wu.exit_code = <<0>>

\* C3: overlayable_hook, outside the upstream branch with a tracked change,
\* exits 0 exactly when the message has an Updated-Overlayable marker line
\* and 1 otherwise; the exit code is always 0 or 1.
C3_SingleRuleDecision ==
  /\ OvDone => ov.exit_code \in {<<0>>, <<1>>}
  /\ (OvDone /\ ov.in_aosp = <<FALSE>> /\ TrackedAt(commit_files) # {}) =>
       ov.exit_code = IF HasMarkerLine(commit_msg, OverlayableMarker)
                        THEN <<0>> ELSE <<1>>

\* a file under drawable/ or layout/ changed, no marker: blocked
C3_Witness ==
  /\ OvDone /\ ov.in_aosp = <<FALSE>>
  /\ \E i \in 1..Len(commit_files) :
       IsTracked(commit_files[i]) /\ commit_files[i] \notin
         {CONFIG_FILE, STRING_FILE, STYLES_FILE}
  /\ ~HasMarkerLine(commit_msg, OverlayableMarker)
  /\ ov.exit_code = <<1>>

\* C4: a message with a line that, trimmed and lowercased, starts with the
\* marker makes the scanner return true, whatever the letter case and the
\* text after the marker (both is_commit_msg_valid and
\* is_commit_msg_has_translation_bug_id).
C4_MarkerAcceptedAtLineStart ==
  /\ (ov.msg_valid # Unset /\ HasMarkerLine(commit_msg, OverlayableMarker))
       => ov.msg_valid = <<TRUE>>
  /\ (wu.msg_valid # Unset /\ HasMarkerLine(commit_msg, OverlayableMarker))
       => wu.msg_valid = <<TRUE>>
  /\ (wu.has_bug_id # Unset /\ HasMarkerLine(commit_msg, TranslationBugMarker))
       => wu.has_bug_id = <<TRUE>>

\* "Bug: 294871353\nUpdated-Overlayable: TRUE": mixed case, trailing text
C4_Witness ==
  /\ commit_msg =
       <<"B", "u", "g", ":", " ", "2", "9", "4", "8", "7", "1", "3", "5", "3",
         "\n", "U", "p", "d", "a", "t", "e", "d", "-", "O", "v", "e", "r",
         "l", "a", "y", "a", "b", "l", "e", ":", " ", "T", "R", "U", "E">>
  /\ ov.msg_valid = <<TRUE>>
  /\ wu.has_bug_id = <<TRUE>>
  /\ wu.msg_valid = <<TRUE>>

\* C5: when the marker occurs in the message only after other non-blank
\* text of its line, or not at all, the scanner returns false, and a
\* tracked change with such a message is blocked with exit code 1.
C5_MarkerRejectedMidLine ==
  /\ MarkerOnlyMidLine(commit_msg, OverlayableMarker) =>
       /\ ov.msg_valid # Unset => ov.msg_valid = <<FALSE>>
       /\ wu.msg_valid # Unset => wu.msg_valid = <<FALSE>>
       /\ (OvDone /\ ov.in_aosp = <<FALSE>> /\ TrackedAt(commit_files) # {})
            => ov.exit_code = <<1>>
       /\ (WuDone /\ wu.in_aosp = <<FALSE>> /\ TrackedAt(commit_files) # {})
            => wu.exit_code = <<1>>
  /\ MarkerOnlyMidLine(commit_msg, TranslationBugMarker) =>
       /\ wu.has_bug_id # Unset => wu.has_bug_id = <<FALSE>>
       /\ (WuDone /\ wu.changed_file = <<STRING_FILE>>) => wu.exit_code = <<1>>

\* "see Updated-Overlayable" with a tracked change: both hooks block
C5_Witness ==
  /\ commit_msg =
       <<"s", "e", "e", " ", "U", "p", "d", "a", "t", "e", "d", "-", "O",
         "v", "e", "r", "l", "a", "y", "a", "b", "l", "e">>
  /\ Occurrences(commit_msg, OverlayableMarker) # {}
  /\ ov.msg_valid = <<FALSE>> /\ ov.exit_code = <<1>>
  /\ wu.msg_valid = <<FALSE>> /\ wu.exit_code = <<1>>

\* C6: wifi_upload_hook, outside the upstream branch with strings.xml as the
\* reported file and no bug id line, returns 1 having printed only the
\* "Bug: 294871353" guidance, without consulting the acknowledgment rule,
\* also when the message has an Updated-Overlayable line.
C6_BugIdRuleFirst ==
  ( /\ WuDone
    /\ wu.in_aosp = <<FALSE>>
    /\ wu.changed_file = <<STRING_FILE>>
    /\ ~HasMarkerLine(commit_msg, TranslationBugMarker) )
  => /\ wu.exit_code = <<1>>
     /\ wu.printed = <<TranslationBugGuidance(STRING_FILE)>>
     /\ wu.msg_valid = Unset

\* strings.xml changed, acknowledgment present, bug id missing
C6_Witness ==
  /\ WuDone
  /\ wu.changed_file = <<STRING_FILE>>
  /\ HasMarkerLine(commit_msg, OverlayableMarker)
  /\ ~HasMarkerLine(commit_msg, TranslationBugMarker)
  /\ wu.exit_code = <<1>>
  /\ wu.printed = <<TranslationBugGuidance(STRING_FILE)>>

\* C7: wifi_upload_hook, outside the upstream branch with strings.xml as the
\* reported file, exits 0 exactly when the message has both marker lines;
\* with the bug id line and no acknowledgment line it returns 1 with the
\* Updated-Overlayable guidance.
C7_RulesIndependent ==
  (WuDone /\ wu.in_aosp = <<FALSE>> /\ wu.changed_file = <<STRING_FILE>>)
  => /\ wu.exit_code = <<0>> <=>
          /\ HasMarkerLine(commit_msg, TranslationBugMarker)
          /\ HasMarkerLine(commit_msg, OverlayableMarker)
     /\ ( /\ HasMarkerLine(commit_msg, TranslationBugMarker)
          /\ ~HasMarkerLine(commit_msg, OverlayableMarker) )
        => /\ wu.exit_code = <<1>>
           /\ wu.printed = <<OverlayableGuidance(STRING_FILE)>>

\* strings.xml changed, bug id present, acknowledgment missing
C7_Witness ==
  /\ WuDone
  /\ wu.changed_file = <<STRING_FILE>>
  /\ wu.has_bug_id = <<TRUE>>
  /\ ~HasMarkerLine(commit_msg, OverlayableMarker)
  /\ wu.exit_code = <<1>>
  /\ wu.printed = <<OverlayableGuidance(STRING_FILE)>>

\* C8: wifi_upload_hook blocks, with exit code 1, every invocation outside
\* the upstream branch whose changed paths include strings.xml at any
\* position and whose message has no bug id line.
C8_LocalizationRuleAnyPosition ==
  ( /\ WuDone
    /\ wu.in_aosp = <<FALSE>>
    /\ \E i \in 1..Len(commit_files) : commit_files[i] = STRING_FILE
    /\ ~HasMarkerLine(commit_msg, TranslationBugMarker) )
  => wu.exit_code = <<1>>

\* C9: get_changed_resource_file returns None when no element is tracked
\* and the first tracked element otherwise; each hook prints at most one
\* violation block, and it names that first tracked path.
C9_FirstTrackedOnly ==
  /\ ov.changed_file # Unset => ov.changed_file = <<FirstTracked(commit_files)>>
  /\ wu.changed_file # Unset => wu.changed_file = <<FirstTracked(commit_files)>>
  /\ Len(ov.printed) <= 1
  /\ Len(wu.printed) <= 1
  /\ ov.printed # <<>> => ov.printed[1].changed_file = FirstTracked(commit_files)
  /\ wu.printed # <<>> => wu.printed[1].changed_file = FirstTracked(commit_files)

\* two different tracked files changed; one block, naming the first
C9_Witness ==
  /\ Cardinality(TrackedAt(commit_files)) = 2
  /\ commit_files[1] # commit_files[2]
  /\ Len(ov.printed) = 1 /\ ov.printed[1].changed_file = commit_files[1]
  /\ Len(wu.printed) = 1 /\ wu.printed[1].changed_file = commit_files[1]

\* positions of the listing at which a line starts with '*'
StarredAt(out) ==
  {p \in 1..Len(out) :
     out[p] = "*" /\ (p = 1 \/ out[p - 1] \in BytesLineBreaks)}

\* the line of the listing that starts at position p
LineFrom(out, p) ==
  LET stops == {q \in p..Len(out) : out[q] \in BytesLineBreaks}
  IN  IF stops = {} THEN SubSeq(out, p, Len(out))
      ELSE SubSeq(out, p, (CHOOSE q \in stops : \A r \in stops : q <= r) - 1)

HasAospRemote(line) ==
  \E i \in 1..(Len(line) - 5) : SubSeq(line, i, i + 5) = AospRemote

\* C10: is_in_aosp returns what the first line starting with '*' decides
\* (true exactly when it contains '[aosp/'), and true when no line starts
\* with '*'; in that case the hook exits 0 silently for every input.
C10_BranchDetectionFailsOpen ==
  LET starred == StarredAt(git_output)
      expected ==
        IF starred = {} THEN TRUE
        ELSE HasAospRemote(LineFrom(git_output,
               CHOOSE p \in starred : \A q \in starred : p <= q))
  IN  /\ ov.in_aosp # Unset => ov.in_aosp = <<expected>>
      /\ wu.in_aosp # Unset => wu.in_aosp = <<expected>>
      /\ starred = {} =>
           /\ OvDone => ov.exit_code = <<0>> /\ ov.printed = <<>>
           /\ WuDone => wu.exit_code = <<0>> /\ wu.printed = <<>>

\* a listing with branches but no current one, a tracked change, no marker
C10_Witness ==
  /\ git_output # <<>>
  /\ StarredAt(git_output) = {}
  /\ commit_files = <<STRING_FILE>>
  /\ commit_msg = <<>>
  /\ OvDone /\ ov.in_aosp = <<TRUE>> /\ ov.exit_code = <<0>>
  /\ WuDone /\ wu.in_aosp = <<TRUE>> /\ wu.exit_code = <<0>>

\* C11: run on the same upstream flag, message and file list, whenever
\* wifi_upload_hook returns 0 overlayable_hook returns 0 too, and the two
\* exit codes are equal whenever the first tracked changed path is not
\* strings.xml or the message has a "Bug: 294871353" marker line.
C11_TwoRuleHookOnlyStricter ==
  (OvDone /\ WuDone) =>
    /\ wu.exit_code = <<0>> => ov.exit_code = <<0>>
    /\ ( \/ FirstTracked(commit_files) # STRING_FILE
         \/ HasMarkerLine(commit_msg, TranslationBugMarker) )
       => ov.exit_code = wu.exit_code

\* strings.xml is the first tracked path, both marker lines are there and
\* both hooks, having looked at the message, return 0
C11_Witness ==
  /\ OvDone /\ WuDone
  /\ ov.in_aosp = <<FALSE>> /\ wu.in_aosp = <<FALSE>>
  /\ FirstTracked(commit_files) = STRING_FILE
  /\ HasMarkerLine(commit_msg, TranslationBugMarker)
  /\ ov.msg_valid = <<TRUE>> /\ wu.msg_valid = <<TRUE>>
  /\ ov.exit_code = <<0>> /\ wu.exit_code = <<0>>

====
